---- MODULE Spec2Model ----
(***************************************************************************)
(* A model of cpp-tree-sitter (include/cpp-tree-sitter.h): the C++ handle  *)
(* layer over the tree-sitter engine.  Language, Node, Tree, Parser,       *)
(* Cursor, ChildIterator and Children are modelled method by method; an    *)
(* engine call made by a method is part of the method, with the behaviour  *)
(* tree_sitter/api.h (included at line 8) documents for it.                *)
(***************************************************************************)
EXTENDS Integers, Sequences, FiniteSets, TLC

\* ------------------------------------------------------------------ bounds
MaxOps     == 6      \* calls on Cursor objects in one run
MaxCalls   == 5      \* calls on Parser, Tree and Node objects in one run
MaxIters   == 2      \* ChildIterator objects that may exist at once
MaxTrees   == 2      \* Tree objects that may exist at once
MaxParses  == 2      \* parseString calls in one run
MaxHandles == 2      \* Node / Cursor handles the caller keeps
MaxBufLen  == 4      \* length of the buffers handed to getSourceRange
MaxSymbols == 5      \* symbols of the largest grammar

VARIABLES
  \* Parser / Tree / Node lifetime
  parsers, trees, engineTrees, handles, lastParse,
  \* Cursor
  curTree, cursors, heap, doubleFree, last,
  \* ChildIterator / Children
  iters, iterMem, lastIt,
  \* Node::getSourceRange
  srcBuffer, srcExtent, srcResult,
  \* Language::getSymbolName
  langCount, symArg, symResult,
  \* calls made so far in the run
  ops,
  \* the process died (a precondition of the engine or of the standard
  \* library was violated and the build trapped)
  crashed

lifeVars  == <<parsers, trees, engineTrees, handles, lastParse>>
curVars   == <<curTree, cursors, heap, doubleFree, last>>
iterVars  == <<iters, iterMem, lastIt>>
rangeVars == <<srcBuffer, srcExtent, srcResult>>
langVars  == <<langCount, symArg, symResult>>
vars == <<lifeVars, curVars, iterVars, rangeVars, langVars, ops, crashed>>

\* ------------------------------------------------------- the parsed trees
\* What the engine hands back for a buffer, under a minimal arithmetic
\* grammar: the visible nodes, numbered in preorder (1 is the root), each
\* with its children in order and its byte range [start, end).
Buffers ==
  { <<>>, <<"1">>, <<" ", "1">>, <<"1", "+">>, <<"1", "+", "2">>,
    <<"1", "+", "2", "+", "3">> }

Leaf3 == << <<2>>, <<3, 4, 5>>, <<>>, <<>>, <<>> >>

EngineParse(buffer) ==
  CASE buffer = <<>> ->
         [kids |-> << <<>> >>, rng |-> << <<0, 0>> >>]
    [] buffer = <<"1">> ->
         [kids |-> << <<2>>, <<>> >>, rng |-> << <<0, 1>>, <<0, 1>> >>]
    [] buffer = <<" ", "1">> ->
         [kids |-> << <<2>>, <<>> >>, rng |-> << <<1, 2>>, <<1, 2>> >>]
    [] buffer = <<"1", "+">> ->
         [kids |-> Leaf3,
          rng  |-> << <<0, 2>>, <<0, 2>>, <<0, 1>>, <<1, 2>>, <<2, 2>> >>]
    [] buffer = <<"1", "+", "2">> ->
         [kids |-> Leaf3,
          rng  |-> << <<0, 3>>, <<0, 3>>, <<0, 1>>, <<1, 2>>, <<2, 3>> >>]
    [] buffer = <<"1", "+", "2", "+", "3">> ->
         [kids |-> << <<2>>, <<3, 7, 8>>, <<4, 5, 6>>, <<>>, <<>>, <<>>,
                      <<>>, <<>> >>,
          rng  |-> << <<0, 5>>, <<0, 5>>, <<0, 3>>, <<0, 1>>, <<1, 2>>,
                      <<2, 3>>, <<3, 4>>, <<4, 5>> >>]

NodesOf(t) == 1 .. Len(t.kids)

\* ------------------------------------------------------------------- Node
\* A Node is the engine's node id inside one tree; 0 is the null node.
getNumChildren(t, n) == IF n = 0 THEN 0 ELSE Len(t.kids[n])

getChild(t, n, position) ==
  IF n # 0 /\ position + 1 \in 1 .. Len(t.kids[n])
    THEN t.kids[n][position + 1]
    ELSE 0

getParent(t, n) ==
  IF \E p \in NodesOf(t) : \E i \in 1 .. Len(t.kids[p]) : t.kids[p][i] = n
    THEN CHOOSE p \in NodesOf(t) : \E i \in 1 .. Len(t.kids[p]) : t.kids[p][i] = n
    ELSE 0

getByteRange(t, n) == [start |-> t.rng[n][1], end |-> t.rng[n][2]]

\* Position of node n among the children of p (1-based), 0 when it is none.
ChildIndex(t, p, n) ==
  IF \E i \in 1 .. Len(t.kids[p]) : t.kids[p][i] = n
    THEN CHOOSE i \in 1 .. Len(t.kids[p]) : t.kids[p][i] = n
    ELSE 0

\* Number of edges from ancestor a down to n; -1 when a is no ancestor of n.
RECURSIVE EdgesBetween(_, _, _)
EdgesBetween(t, a, n) ==
  IF n = a THEN 0
  ELSE IF n = 0 \/ getParent(t, n) = 0 THEN -1
  ELSE LET d == EdgesBetween(t, a, getParent(t, n))
       IN  IF d < 0 THEN -1 ELSE d + 1

\* ----------------------------------------------------------------- Cursor
\* The engine-side state of a cursor is its stack of entries, from the node
\* the cursor was created at or reset to (the bottom) down to the current
\* node (the top).  A stack is a sequence of node ids.
Front(s) == SubSeq(s, 1, Len(s) - 1)
Top(s)   == s[Len(s)]

getCurrentNode(stack) == Top(stack)

\* The engine counts the entries above the bottom one: none on an empty
\* stack (a moved-from cursor, or one reset to itself).
getDepthFromOrigin(stack) == IF stack = <<>> THEN 0 ELSE Len(stack) - 1

\* Each move returns the success flag and the stack after the call.  The
\* sibling moves look for a parent entry under the top one and fail when
\* the stack has fewer than two entries, an empty stack included; the other
\* moves and getCurrentNode read the top entry (see UseUnpositioned).

\* (mutant) the parent is looked up in the tree, not on the stack: the
\* cursor climbs above the node it was created at.
gotoParentViaTree(t, stack) ==
  IF getParent(t, Top(stack)) # 0
    THEN [ok |-> TRUE,
          stack |-> IF Len(stack) > 1 THEN Front(stack)
                    ELSE <<getParent(t, Top(stack))>>]
    ELSE [ok |-> FALSE, stack |-> stack]

gotoParent(t, stack) ==
  IF Len(stack) > 1
    THEN [ok |-> TRUE,  stack |-> Front(stack)]
    ELSE [ok |-> FALSE, stack |-> stack]

gotoFirstChild(t, stack) ==
  IF Len(t.kids[Top(stack)]) > 0
    THEN [ok |-> TRUE,  stack |-> Append(stack, t.kids[Top(stack)][1])]
    ELSE [ok |-> FALSE, stack |-> stack]

gotoLastChild(t, stack) ==
  IF Len(t.kids[Top(stack)]) > 0
    THEN [ok |-> TRUE,
          stack |-> Append(stack, t.kids[Top(stack)][Len(t.kids[Top(stack)])])]
    ELSE [ok |-> FALSE, stack |-> stack]

\* (mutant) the popped entry is not restored when there is no next sibling.
gotoNextSiblingNoRestore(t, stack) ==
  IF Len(stack) > 1
    THEN LET p == stack[Len(stack) - 1]
             i == ChildIndex(t, p, Top(stack))
         IN  IF i < Len(t.kids[p])
               THEN [ok |-> TRUE,  stack |-> Append(Front(stack), t.kids[p][i + 1])]
               ELSE [ok |-> FALSE, stack |-> Front(stack)]
    ELSE [ok |-> FALSE, stack |-> stack]

gotoNextSibling(t, stack) ==
  IF Len(stack) > 1
    THEN LET p == stack[Len(stack) - 1]
             i == ChildIndex(t, p, Top(stack))
         IN  IF i < Len(t.kids[p])
               THEN [ok |-> TRUE,  stack |-> Append(Front(stack), t.kids[p][i + 1])]
               ELSE [ok |-> FALSE, stack |-> stack]
    ELSE [ok |-> FALSE, stack |-> stack]

\* (mutant) the sibling is pushed on top of the current entry.
gotoPreviousSiblingPush(t, stack) ==
  IF Len(stack) > 1
    THEN LET p == stack[Len(stack) - 1]
             i == ChildIndex(t, p, Top(stack))
         IN  IF i > 1
               THEN [ok |-> TRUE,  stack |-> Append(stack, t.kids[p][i - 1])]
               ELSE [ok |-> FALSE, stack |-> stack]
    ELSE [ok |-> FALSE, stack |-> stack]

gotoPreviousSibling(t, stack) ==
  IF Len(stack) > 1
    THEN LET p == stack[Len(stack) - 1]
             i == ChildIndex(t, p, Top(stack))
         IN  IF i > 1
               THEN [ok |-> TRUE,  stack |-> Append(Front(stack), t.kids[p][i - 1])]
               ELSE [ok |-> FALSE, stack |-> stack]
    ELSE [ok |-> FALSE, stack |-> stack]

\* A Cursor object holds the engine state by value (impl): ptr is the heap
\* block of the stack (0: none, the zero-initialised state), stack its
\* entries.  The other fields are history kept for the properties below:
\*   org         the node the cursor was last positioned at by construction
\*               from a Node, reset(Node) or reset(Cursor&) (0: positioned
\*               in no such way);
\*   base, bsteps the node at the bottom of the stack when it was last
\*               built from a Node, and the edges counted since;
\*   tr          1 right after Node::getCursor, 2 after a gotoFirstChild
\*               that follows it, 3 after a gotoParent that follows that.
ZeroImpl ==
  [ptr |-> 0, stack |-> <<>>, org |-> 0, base |-> 0,
   bsteps |-> 0, tr |-> 0]

NoCursor == [live |-> FALSE, impl |-> ZeroImpl]

\* The caller's Cursor objects: two, the most one call involves (copy,
\* move construction and assignment, reset(Cursor&)).
Slots == {1, 2}

\* Cursor(TSNode): ts_tree_cursor_new allocates a stack holding the node.
CursorFromNode(n, p) ==
  [ptr |-> p, stack |-> <<n>>, org |-> n, base |-> n,
   bsteps |-> 0, tr |-> 1]

\* Cursor(const TSTreeCursor&), reached through copy(): ts_tree_cursor_copy
\* makes a new state with a copy of the stack (no block for an empty one).
CursorFromCursor(src, p) ==
  [ptr |-> IF src.stack = <<>> THEN 0 ELSE p, stack |-> src.stack,
   org |-> 0, base |-> src.base, bsteps |-> src.bsteps,
   tr |-> 0]

\* (mutant) the state is copied and the source keeps it.
MoveCtorKeepsSource(other) == [self |-> other, other |-> other]

\* Cursor(Cursor&& other): impl{} then std::swap(impl, other.impl).
MoveCtor(other) == [self |-> other, other |-> ZeroImpl]

\* operator=(Cursor&& other): std::swap(impl, other.impl).
MoveAssign(self, other) == [self |-> other, other |-> self]

\* reset(Node): ts_tree_cursor_reset clears the stack and pushes the node
\* (allocating a block when the cursor has none).
resetNode(impl, n, p) ==
  [ptr |-> IF impl.ptr = 0 THEN p ELSE impl.ptr, stack |-> <<n>>,
   org |-> n, base |-> n, bsteps |-> 0, tr |-> 0]

\* reset(Cursor&): ts_tree_cursor_reset_to clears the stack and pushes all
\* of the other cursor's entries, its bottom entry included.
resetTo(impl, other, p) ==
  [ptr |-> IF impl.ptr = 0 /\ other.stack # <<>> THEN p ELSE impl.ptr,
   stack |-> other.stack,
   org |-> IF other.stack = <<>> THEN 0 ELSE Top(other.stack),
   base |-> other.base, bsteps |-> other.bsteps, tr |-> 0]

\* What a move leaves in the cursor: the stack the engine call returned,
\* and the history.
AfterMove(impl, op, res) ==
  LET d == IF ~res.ok THEN 0
           ELSE IF op \in {"gotoFirstChild", "gotoLastChild"} THEN 1
           ELSE IF op = "gotoParent" THEN -1 ELSE 0
  IN  [impl EXCEPT !.stack = res.stack,
                   !.bsteps = @ + d,
                   !.tr = IF impl.tr = 1 /\ op = "gotoFirstChild" THEN 2
                          ELSE IF impl.tr = 2 /\ op = "gotoParent" THEN 3
                          ELSE 0]

\* ~Cursor(): ts_tree_cursor_delete frees the stack's block, if any.
Released(impl) == IF impl.ptr = 0 THEN {} ELSE {impl.ptr}

\* -------------------------------------------------- Cursor: the actions
T == EngineParse(curTree)

\* last: the call just made, the cursor a goto* was made on, and what it
\* returned.
Op(name) == [op |-> name, slot |-> 0, ok |-> TRUE]

\* heap: the stack blocks the engine has allocated and not freed.  A new
\* block is one not in use; freeing a block that is not allocated is a
\* double free (recorded in doubleFree).
NewBlock == CHOOSE p \in 1 .. Cardinality(Slots) + 1 : p \notin heap

CursorFrame ==
  /\ ops < MaxOps /\ ops' = ops + 1
  /\ UNCHANGED <<curTree, lifeVars, iterVars, rangeVars, langVars, crashed>>

\* Node::getCursor on a node of the tree.
GetCursor(s, n) ==
  /\ ~crashed /\ ~cursors[s].live
  /\ cursors' = [cursors EXCEPT ![s] = [live |-> TRUE, impl |-> CursorFromNode(n, NewBlock)]]
  /\ heap' = heap \cup {NewBlock}
  /\ last' = Op("getCursor")
  /\ UNCHANGED doubleFree /\ CursorFrame

\* Cursor::copy into a new object.
Copy(src, dst) ==
  /\ ~crashed /\ cursors[src].live /\ ~cursors[dst].live
  /\ cursors' = [cursors EXCEPT ![dst] =
                   [live |-> TRUE, impl |-> CursorFromCursor(cursors[src].impl, NewBlock)]]
  /\ heap' = IF cursors[src].impl.stack # <<>> THEN heap \cup {NewBlock} ELSE heap
  /\ last' = Op("copy")
  /\ UNCHANGED doubleFree /\ CursorFrame

\* Cursor dst{std::move(src)}.
MoveConstruct(src, dst) ==
  /\ ~crashed /\ cursors[src].live /\ ~cursors[dst].live
  /\ LET r == MoveCtor(cursors[src].impl)
     IN  cursors' = [cursors EXCEPT ![dst] = [live |-> TRUE, impl |-> r.self],
                                    ![src] = [live |-> TRUE, impl |-> r.other]]
  /\ last' = Op("moveConstruct")
  /\ UNCHANGED <<heap, doubleFree>> /\ CursorFrame

\* dst = std::move(src); src and dst may be the same object.
MoveAssignment(src, dst) ==
  /\ ~crashed /\ cursors[src].live /\ cursors[dst].live
  /\ LET r == MoveAssign(cursors[dst].impl, cursors[src].impl)
     IN  cursors' = IF src = dst THEN cursors
                    ELSE [cursors EXCEPT ![dst] = [live |-> TRUE, impl |-> r.self],
                                         ![src] = [live |-> TRUE, impl |-> r.other]]
  /\ last' = Op("moveAssign")
  /\ UNCHANGED <<heap, doubleFree>> /\ CursorFrame

\* ~Cursor().
Destroy(s) ==
  /\ ~crashed /\ cursors[s].live
  /\ heap' = heap \ Released(cursors[s].impl)
  /\ doubleFree' = (doubleFree \/ ~(Released(cursors[s].impl) \subseteq heap))
  /\ cursors' = [cursors EXCEPT ![s] = NoCursor]
  /\ last' = [Op("destroy") EXCEPT !.ok = (cursors[s].impl.ptr # 0)]
  /\ CursorFrame

\* Cursor::reset(Node).
ResetNode(s, n) ==
  /\ ~crashed /\ cursors[s].live
  /\ cursors' = [cursors EXCEPT ![s].impl = resetNode(@, n, NewBlock)]
  /\ heap' = heap \cup {cursors'[s].impl.ptr}
  /\ last' = Op("resetNode")
  /\ UNCHANGED doubleFree /\ CursorFrame

\* Cursor::reset(Cursor&).  With dst and src the same object the engine
\* clears the stack before it copies it.
ResetTo(dst, src) ==
  /\ ~crashed /\ cursors[dst].live /\ cursors[src].live
  /\ LET other == IF src = dst THEN [cursors[src].impl EXCEPT !.stack = <<>>]
                   ELSE cursors[src].impl
         new   == resetTo(cursors[dst].impl, other, NewBlock)
     IN  /\ cursors' = [cursors EXCEPT ![dst].impl = new]
         /\ heap' = heap \cup Released(new)
  /\ last' = Op("resetTo")
  /\ UNCHANGED doubleFree /\ CursorFrame

\* A goto* call that returns.
Move(s, op, res) ==
  /\ ~crashed /\ cursors[s].live
  /\ cursors' = [cursors EXCEPT ![s].impl = AfterMove(@, op, res)]
  /\ last' = [op |-> op, slot |-> s, ok |-> res.ok]
  /\ UNCHANGED <<heap, doubleFree>> /\ CursorFrame

GotoParent(s) ==
  cursors[s].impl.stack # <<>> /\ Move(s, "gotoParent", gotoParent(T, cursors[s].impl.stack))

GotoFirstChild(s) ==
  cursors[s].impl.stack # <<>> /\ Move(s, "gotoFirstChild", gotoFirstChild(T, cursors[s].impl.stack))

GotoLastChild(s) ==
  cursors[s].impl.stack # <<>> /\ Move(s, "gotoLastChild", gotoLastChild(T, cursors[s].impl.stack))

\* On a cursor with an empty stack (moved from, or reset to itself) the
\* call returns false and changes nothing.
GotoNextSibling(s) ==
  Move(s, "gotoNextSibling", gotoNextSibling(T, cursors[s].impl.stack))

\* As gotoNextSibling on a cursor with an empty stack.
GotoPreviousSibling(s) ==
  Move(s, "gotoPreviousSibling", gotoPreviousSibling(T, cursors[s].impl.stack))

\* gotoParent, gotoFirstChild, gotoLastChild or getCurrentNode on a cursor
\* whose stack is empty (a moved-from cursor, or one reset to itself): the
\* engine reads an entry that is not there and the process dies.
UseUnpositioned(s) ==
  /\ ~crashed /\ cursors[s].live /\ cursors[s].impl.stack = <<>>
  /\ crashed' = TRUE
  /\ last' = Op("crash")
  /\ ops < MaxOps /\ ops' = ops + 1
  /\ UNCHANGED <<curTree, cursors, heap, doubleFree, lifeVars, iterVars, rangeVars, langVars>>

\* ------------------------------------------- ChildIterator and Children
\* A ChildIterator holds its own Cursor (by value) and the atEnd flag.  The
\* entries of the cursor's stack are in a block the engine allocated for
\* it: ptr is that block (0: none, the zero state of a moved-from cursor)
\* and iterMem maps every block to the entries in it (none in a block that
\* is not allocated).  The other fields are history kept for the properties
\* below: node is the node of the Children whose iteration the object
\* carries (0 once the object has been moved from), and idx counts the ++
\* calls made in that iteration while it was not at the end, so that the
\* iterator stands on the position numbered idx (from 0).
NoIter ==
  [live |-> FALSE, node |-> 0, ptr |-> 0, atEnd |-> TRUE, idx |-> 0]

Iters == 1 .. MaxIters

\* The buffers whose trees are iterated over: their nodes have no child,
\* one child (the root) and three children (with a parent above them).
IteratedBuffers == { <<>>, <<"1">>, <<"1", "+", "2">> }

IterBlocks == 1 .. MaxIters

\* The stack of an iterator's cursor.
IterStack(mem, it) == IF it.ptr = 0 THEN <<>> ELSE mem[it.ptr]

\* ts_tree_cursor_new, reached through node.getCursor(): a block that is
\* not allocated.
NewIterBlock(mem) == CHOOSE p \in IterBlocks : mem[p] = <<>>

\* The constructor and operator++ return the iterator and the engine memory
\* after the call.

\* (mutant) the cursor is not moved to the first child.
ChildIteratorNoDescend(t, n, mem) ==
  [self |-> [live |-> TRUE, node |-> n, ptr |-> NewIterBlock(mem),
             atEnd |-> FALSE, idx |-> 0],
   mem  |-> [mem EXCEPT ![NewIterBlock(mem)] = <<n>>]]

\* (mutant) the cursor is copied member by member from a live iterator that
\* stands on the first child of the node: the two share the stack block.
ChildIteratorShared(t, n, mem) ==
  IF \E j \in DOMAIN iters :
       /\ iters[j].live /\ iters[j].node = n /\ ~iters[j].atEnd
       /\ IterStack(mem, iters[j]) = gotoFirstChild(t, <<n>>).stack
    THEN LET j == CHOOSE j \in DOMAIN iters :
                    /\ iters[j].live /\ iters[j].node = n /\ ~iters[j].atEnd
                    /\ IterStack(mem, iters[j]) = gotoFirstChild(t, <<n>>).stack
         IN  [self |-> [iters[j] EXCEPT !.idx = 0],
              mem  |-> mem]
    ELSE LET r == gotoFirstChild(t, <<n>>)
         IN  [self |-> [live |-> TRUE, node |-> n, ptr |-> NewIterBlock(mem),
                        atEnd |-> ~r.ok, idx |-> 0],
              mem  |-> [mem EXCEPT ![NewIterBlock(mem)] = r.stack]]

\* ChildIterator(const Node&): cursor{node.getCursor()},
\* atEnd{!cursor.gotoFirstChild()}.
ChildIterator(t, n, mem) ==
  LET r == gotoFirstChild(t, <<n>>)
  IN  [self |-> [live |-> TRUE, node |-> n, ptr |-> NewIterBlock(mem),
                 atEnd |-> ~r.ok, idx |-> 0],
       mem  |-> [mem EXCEPT ![NewIterBlock(mem)] = r.stack]]

\* operator*: cursor.getCurrentNode().
Deref(mem, it) == getCurrentNode(IterStack(mem, it))

\* operator++ and operator++(int): atEnd = !cursor.gotoNextSibling().
Increment(t, mem, it) ==
  LET r == gotoNextSibling(t, IterStack(mem, it))
  IN  [self |-> [it EXCEPT !.atEnd = ~r.ok,
                           !.idx = IF it.node = 0 \/ it.atEnd THEN @ ELSE @ + 1],
       mem  |-> IF it.ptr = 0 THEN mem ELSE [mem EXCEPT ![it.ptr] = r.stack]]

\* operator== with the sentinel.
EqualsSentinel(it) == it.atEnd

\* The cursor member of a ChildIterator.
IterCursor(it) == [ZeroImpl EXCEPT !.ptr = it.ptr]

\* ChildIterator(ChildIterator&&), implicit: the cursor member is move
\* constructed (the source's cursor is left with the zero state) and atEnd
\* is copied.  The new object carries the source's iteration on.
IterMoveCtor(other) ==
  [self  |-> other,
   other |-> [other EXCEPT !.ptr = MoveCtor(IterCursor(other)).other.ptr,
                           !.node = 0, !.idx = 0]]

\* operator=(ChildIterator&&), implicit: the cursor members are move
\* assigned (swapped) and atEnd is copied; the source keeps its own atEnd.
IterMoveAssign(self, other) ==
  [self  |-> [other EXCEPT
                 !.ptr = MoveAssign(IterCursor(self), IterCursor(other)).self.ptr],
   other |-> [other EXCEPT
                 !.ptr = MoveAssign(IterCursor(self), IterCursor(other)).other.ptr,
                 !.node = 0, !.idx = 0]]

\* ~ChildIterator(), implicit: ~Cursor() frees the block, if any.
IterRelease(mem, it) == IF it.ptr = 0 THEN mem ELSE [mem EXCEPT ![it.ptr] = <<>>]

\* lastIt: the iterator the call just made returned from begin(), when the
\* call was begin().
NotBegin == [op |-> "other", slot |-> 0]

IterFrame == UNCHANGED <<curVars, lifeVars, rangeVars, langVars, ops>>

\* Children{n}.begin().
Begin(i, n) ==
  /\ ~crashed /\ ~iters[i].live
  /\ LET r == ChildIterator(T, n, iterMem)
     IN  iters' = [iters EXCEPT ![i] = r.self] /\ iterMem' = r.mem
  /\ lastIt' = [op |-> "begin", slot |-> i]
  /\ UNCHANGED crashed /\ IterFrame

\* *it on an iterator whose cursor has a position, at the end or not
\* (operator* does not look at atEnd): the call returns Deref and changes
\* nothing.
Dereference(i) ==
  /\ ~crashed /\ iters[i].live
  /\ IterStack(iterMem, iters[i]) # <<>>
  /\ lastIt' = NotBegin
  /\ UNCHANGED <<iters, iterMem, crashed>> /\ IterFrame

\* *it on an iterator whose cursor was moved out, at the end or not (see
\* UseUnpositioned).
DereferenceMovedFrom(i) ==
  /\ ~crashed /\ iters[i].live
  /\ IterStack(iterMem, iters[i]) = <<>>
  /\ crashed' = TRUE
  /\ lastIt' = NotBegin
  /\ UNCHANGED <<iters, iterMem>> /\ IterFrame

\* ++it.
PreIncrement(i) ==
  /\ ~crashed /\ iters[i].live
  /\ LET r == Increment(T, iterMem, iters[i])
     IN  iters' = [iters EXCEPT ![i] = r.self] /\ iterMem' = r.mem
  /\ lastIt' = NotBegin
  /\ UNCHANGED crashed /\ IterFrame

\* it++: the same body as ++it.
PostIncrement(i) ==
  /\ ~crashed /\ iters[i].live
  /\ LET r == Increment(T, iterMem, iters[i])
     IN  iters' = [iters EXCEPT ![i] = r.self] /\ iterMem' = r.mem
  /\ lastIt' = NotBegin
  /\ UNCHANGED crashed /\ IterFrame

\* The iterator goes out of scope.
EndOfLoop(i) ==
  /\ ~crashed /\ iters[i].live
  /\ iters' = [iters EXCEPT ![i] = NoIter]
  /\ iterMem' = IterRelease(iterMem, iters[i])
  /\ lastIt' = NotBegin
  /\ UNCHANGED crashed /\ IterFrame

\* ChildIterator dst{std::move(src)}.
IterMoveConstruct(src, dst) ==
  /\ ~crashed /\ iters[src].live /\ ~iters[dst].live
  /\ LET r == IterMoveCtor(iters[src])
     IN  iters' = [iters EXCEPT ![dst] = r.self, ![src] = r.other]
  /\ lastIt' = NotBegin
  /\ UNCHANGED <<iterMem, crashed>> /\ IterFrame

\* dst = std::move(src), on two objects.
IterMoveAssignment(src, dst) ==
  /\ ~crashed /\ iters[src].live /\ iters[dst].live /\ src # dst
  /\ LET r == IterMoveAssign(iters[dst], iters[src])
     IN  iters' = [iters EXCEPT ![dst] = r.self, ![src] = r.other]
  /\ lastIt' = NotBegin
  /\ UNCHANGED <<iterMem, crashed>> /\ IterFrame

\* ------------------------------------------------- Node::getSourceRange
\* std::string_view::substr(pos, count): throws std::out_of_range when pos
\* is past the end, else the view of min(count, size - pos) bytes at pos.
Min(a, b) == IF a < b THEN a ELSE b

substr(source, pos, count) ==
  IF pos > Len(source)
    THEN [called |-> TRUE, threw |-> TRUE, text |-> <<>>]
    ELSE [called |-> TRUE, threw |-> FALSE,
          text |-> SubSeq(source, pos + 1, pos + Min(count, Len(source) - pos))]

\* (mutant) the end offset is passed as the count.
getSourceRangeEndAsCount(source, extents) ==
  substr(source, extents.start, extents.end)

\* getSourceRange: source.substr(extents.start, extents.end - extents.start).
\* The subtraction is in uint32_t: with end below start it wraps to a count
\* above the size of any buffer, of which substr keeps size - pos.
getSourceRange(source, extents) ==
  IF extents.end >= extents.start
    THEN substr(source, extents.start, extents.end - extents.start)
    ELSE substr(source, extents.start, Len(source))

NoSlice == [called |-> FALSE, threw |-> FALSE, text |-> <<>>]

Alphabet == {"1", "+", " "}

RECURSIVE SeqsUpTo(_)
SeqsUpTo(n) ==
  IF n = 0 THEN {<<>>}
  ELSE LET shorter == SeqsUpTo(n - 1)
       IN  shorter \cup {Append(b, c) : b \in {x \in shorter : Len(x) = n - 1}, c \in Alphabet}

\* The byte ranges the engine gives the nodes of a tree parsed from a
\* buffer: start <= end <= size of the buffer.
ExtentsIn(buffer) ==
  {[start |-> a, end |-> b] : a, b \in 0 .. Len(buffer)} \cap
  {x \in [start : 0 .. Len(buffer), end : 0 .. Len(buffer)] : x.start <= x.end}

RangeFrame == UNCHANGED <<curVars, lifeVars, iterVars, langVars, ops, crashed>>

\* The caller takes another node of the tree.
PickNode(x) ==
  /\ x \in ExtentsIn(srcBuffer) /\ x # srcExtent
  /\ srcExtent' = x /\ srcResult' = NoSlice
  /\ UNCHANGED srcBuffer /\ RangeFrame

\* n.getSourceRange(buffer), with the buffer that was parsed.
GetSourceRange ==
  /\ srcResult' = getSourceRange(srcBuffer, srcExtent)
  /\ UNCHANGED <<srcBuffer, srcExtent>> /\ RangeFrame

\* ------------------------------------------------ Language::getSymbolName
\* Symbol is uint16_t.  The engine names the two built-in error symbols,
\* names a symbol below the symbol count from the grammar's table, and
\* returns a null pointer for any other; the wrapper builds a string_view
\* from the pointer as it is.  A string_view built from a null pointer is
\* undefined: the process dies, or the view is of whatever memory is read.
SymbolLimit == 2^16

BuiltinSymError == SymbolLimit - 1

BuiltinSymErrorRepeat == SymbolLimit - 2

SymbolNames(symbol) == <<"symbol", symbol>>

NoName == [called |-> FALSE, kind |-> "none", name |-> <<>>]

getSymbolName(count, symbol) ==
  IF symbol = BuiltinSymError
    THEN {[called |-> TRUE, kind |-> "name", name |-> <<"ERROR">>]}
  ELSE IF symbol = BuiltinSymErrorRepeat
    THEN {[called |-> TRUE, kind |-> "name", name |-> <<"_ERROR">>]}
  ELSE IF symbol < count
    THEN {[called |-> TRUE, kind |-> "name", name |-> SymbolNames(symbol)]}
  ELSE {[called |-> TRUE, kind |-> "crash", name |-> <<>>],
        [called |-> TRUE, kind |-> "garbage", name |-> <<>>]}

\* The symbols handed to getSymbolName: those of the grammar, the next two
\* and the two largest values of the type.
SymbolInputs == (0 .. MaxSymbols + 1) \cup {BuiltinSymErrorRepeat, BuiltinSymError}

LangFrame == UNCHANGED <<curVars, lifeVars, iterVars, rangeVars, ops>>

PickSymbol(symbol) ==
  /\ ~crashed /\ symbol # symArg
  /\ symArg' = symbol /\ symResult' = NoName
  /\ UNCHANGED <<langCount, crashed>> /\ LangFrame

GetSymbolName ==
  /\ ~crashed
  /\ symResult' \in getSymbolName(langCount, symArg)
  /\ crashed' = (symResult'.kind = "crash")
  /\ UNCHANGED <<langCount, symArg>> /\ LangFrame

\* ------------------------------------------------ Parser, Tree and Node
\* A Parser object owns the engine parser: impl is 1 when it holds one and
\* 0 when the pointer is null (a moved-from Parser); accepted says the
\* engine parser has a language.
NoParser == [live |-> FALSE, impl |-> 0, accepted |-> FALSE]

\* The caller's Parser objects: two, the most one call involves (move
\* construction and assignment).
ParserSlots == {1, 2}

\* Parser(Language): ts_parser_set_language refuses a grammar whose ABI
\* version the engine does not support and leaves the parser without a
\* language; the constructor does not look at its result.
ParserNew(compatible) == [live |-> TRUE, impl |-> 1, accepted |-> compatible]

\* Parser(Parser&&), implicit: the unique_ptr is moved, the source left
\* null.
ParserMove(src) ==
  [self  |-> src,
   other |-> [src EXCEPT !.impl = 0, !.accepted = FALSE]]

\* parseString: what the call can come to.  "tree": the engine returns a
\* tree; "null": it returns a null pointer (a parser without a language);
\* "abort": &buffer.front() on an empty view, which is undefined, trapped by
\* a standard library built with assertions (otherwise the pointer is
\* passed on and the engine never reads through it); "crash": the Parser
\* was moved from and the engine reads through its null parser pointer.
parseString(p, buffer) ==
  LET engine == IF p.impl = 0 THEN "crash"
                ELSE IF p.accepted THEN "tree" ELSE "null"
  IN  IF buffer = <<>> THEN {"abort", engine} ELSE {engine}

\* A Tree object owns the engine tree impl (0: a null pointer).  The engine
\* trees ever made are numbered from 1; frees counts the ts_tree_delete
\* calls on a tree, and adopted the Tree objects constructed from its raw
\* pointer beside the one parseString returned.
NoTree == [live |-> FALSE, impl |-> 0]

NotParsed == [called |-> FALSE, result |-> "none", root |-> 0]

\* A Node or Cursor the caller holds: the engine tree it points into and
\* the node it is at.
NoHandle == [kind |-> "none", tree |-> 0, id |-> 0]

Allocated(id) == id \in 1 .. Len(engineTrees) /\ engineTrees[id].frees = 0

\* ts_tree_delete on a tree already deleted is a double free: the allocator
\* aborts the process, or the call goes by unnoticed.
DoubleFree(et, id) ==
  IF id # 0 /\ et[id].frees > 0 THEN {TRUE, FALSE} ELSE {FALSE}

TreeOf(id) == EngineParse(engineTrees[id].buf)

\* (mutant) the Tree holds the pointer without a deleter.
FreeTreeLeaks(et, id) == et

\* The deleter of Tree::impl: ts_tree_delete, on a non-null pointer only.
FreeTree(et, id) == IF id = 0 THEN et ELSE [et EXCEPT ![id].frees = @ + 1]

\* Tree(Tree&&), implicit: the unique_ptr is moved, the source left null.
TreeMove(src) == [self |-> src.impl, other |-> 0]

TreeSlots == 1 .. MaxTrees

\* The buffers handed to parseString here: the empty one, one whose tree
\* is a root over a leaf, and one whose tree has a node with three children.
ParsedBuffers == { <<>>, <<"1">>, <<"1", "+", "2">> }

Handles == 1 .. MaxHandles

LifeFrame ==
  /\ ops < MaxCalls /\ ops' = ops + 1
  /\ UNCHANGED <<curVars, iterVars, rangeVars, langVars>>

\* Tree t = parser.parseString(buffer).
ParseString(p, slot, buffer) ==
  /\ ~crashed /\ parsers[p].live
  /\ ~trees[slot].live /\ Len(engineTrees) < MaxParses
  /\ \E out \in parseString(parsers[p], buffer) :
       /\ lastParse' = [called |-> TRUE, result |-> out,
                        root |-> IF out = "tree" THEN 1 ELSE 0]
       /\ crashed' = (out \in {"abort", "crash"})
       /\ engineTrees' = IF out = "tree"
                           THEN Append(engineTrees, [buf |-> buffer, frees |-> 0,
                                                     adopted |-> 0])
                           ELSE engineTrees
       /\ trees' = IF out \in {"abort", "crash"} THEN trees
                    ELSE [trees EXCEPT ![slot] =
                           [live |-> TRUE,
                            impl |-> IF out = "tree" THEN Len(engineTrees) + 1 ELSE 0]]
  /\ UNCHANGED <<parsers, handles>> /\ LifeFrame

\* Parser p{language}.
NewParser(p, compatible) ==
  /\ ~crashed /\ ~parsers[p].live
  /\ parsers' = [parsers EXCEPT ![p] = ParserNew(compatible)]
  /\ UNCHANGED <<trees, engineTrees, handles, lastParse, crashed>> /\ LifeFrame

\* ~Parser(): ts_parser_delete on the engine parser, if any.
DestroyParser(p) ==
  /\ ~crashed /\ parsers[p].live
  /\ parsers' = [parsers EXCEPT ![p] = NoParser]
  /\ UNCHANGED <<trees, engineTrees, handles, lastParse, crashed>> /\ LifeFrame

\* Parser dst{std::move(src)}.
MoveParser(src, dst) ==
  /\ ~crashed /\ parsers[src].live /\ ~parsers[dst].live
  /\ LET r == ParserMove(parsers[src])
     IN  parsers' = [parsers EXCEPT ![dst] = r.self, ![src] = r.other]
  /\ UNCHANGED <<trees, engineTrees, handles, lastParse, crashed>> /\ LifeFrame

\* dst = std::move(src): dst deletes the engine parser it owned and takes
\* src's.
MoveAssignParser(src, dst) ==
  /\ ~crashed /\ parsers[src].live /\ parsers[dst].live /\ src # dst
  /\ LET r == ParserMove(parsers[src])
     IN  parsers' = [parsers EXCEPT ![dst] = r.self, ![src] = r.other]
  /\ UNCHANGED <<trees, engineTrees, handles, lastParse, crashed>> /\ LifeFrame

\* Tree::getRootNode; on a Tree without an engine tree the engine reads
\* through the null pointer, and on a Tree whose engine tree another owner
\* has deleted it reads freed memory: the process dies, or the memory is
\* still intact.
GetRootNode(slot, h) ==
  /\ ~crashed /\ trees[slot].live /\ handles[h].kind = "none"
  /\ crashed' \in IF trees[slot].impl = 0 THEN {TRUE}
                  ELSE IF Allocated(trees[slot].impl) THEN {FALSE}
                  ELSE {TRUE, FALSE}
  /\ handles' = IF crashed' THEN handles
                 ELSE [handles EXCEPT ![h] =
                        [kind |-> "node", tree |-> trees[slot].impl, id |-> 1]]
  /\ UNCHANGED <<parsers, trees, engineTrees, lastParse>> /\ LifeFrame

\* Node::getChild on a Node the caller holds.  On a Node whose tree was
\* deleted this is the outcome in which the freed memory is still intact.
GetChildOf(h, h2, position) ==
  /\ ~crashed /\ handles[h].kind = "node" /\ handles[h2].kind = "none"
  /\ getChild(TreeOf(handles[h].tree), handles[h].id, position) # 0
  /\ handles' = [handles EXCEPT ![h2] =
                   [kind |-> "node", tree |-> handles[h].tree,
                    id |-> getChild(TreeOf(handles[h].tree), handles[h].id, position)]]
  /\ UNCHANGED <<parsers, trees, engineTrees, lastParse, crashed>> /\ LifeFrame

\* Node::getParent on a Node the caller holds (as for getChild).
GetParentOf(h, h2) ==
  /\ ~crashed /\ handles[h].kind = "node" /\ handles[h2].kind = "none"
  /\ getParent(TreeOf(handles[h].tree), handles[h].id) # 0
  /\ handles' = [handles EXCEPT ![h2] =
                   [kind |-> "node", tree |-> handles[h].tree,
                    id |-> getParent(TreeOf(handles[h].tree), handles[h].id)]]
  /\ UNCHANGED <<parsers, trees, engineTrees, lastParse, crashed>> /\ LifeFrame

\* Node::getCursor on a Node the caller holds: a Cursor at that node.
GetCursorOf(h, h2) ==
  /\ ~crashed /\ handles[h].kind = "node" /\ handles[h2].kind = "none"
  /\ handles' = [handles EXCEPT ![h2] = [handles[h] EXCEPT !.kind = "cursor"]]
  /\ UNCHANGED <<parsers, trees, engineTrees, lastParse, crashed>> /\ LifeFrame

\* A query on a Node or Cursor whose tree was deleted: the outcome in which
\* the read of freed memory kills the process.
UseDangling(h) ==
  /\ ~crashed /\ handles[h].kind # "none" /\ ~Allocated(handles[h].tree)
  /\ crashed' = TRUE
  /\ UNCHANGED <<parsers, trees, engineTrees, handles, lastParse>> /\ LifeFrame

\* The Node or Cursor goes out of scope.
DropHandle(h) ==
  /\ ~crashed /\ handles[h].kind # "none"
  /\ handles' = [handles EXCEPT ![h] = NoHandle]
  /\ UNCHANGED <<parsers, trees, engineTrees, lastParse, crashed>> /\ LifeFrame

\* Tree dst{std::move(src)}.
MoveTree(src, dst) ==
  /\ ~crashed /\ trees[src].live /\ ~trees[dst].live
  /\ LET r == TreeMove(trees[src])
     IN  trees' = [trees EXCEPT ![dst] = [live |-> TRUE, impl |-> r.self],
                                ![src] = [live |-> TRUE, impl |-> r.other]]
  /\ UNCHANGED <<parsers, engineTrees, handles, lastParse, crashed>> /\ LifeFrame

\* dst = std::move(src): dst deletes the tree it owned and takes src's.
MoveAssignTree(src, dst) ==
  /\ ~crashed /\ trees[src].live /\ trees[dst].live /\ src # dst
  /\ LET r == TreeMove(trees[src])
     IN  /\ trees' = [trees EXCEPT ![dst] = [live |-> TRUE, impl |-> r.self],
                                    ![src] = [live |-> TRUE, impl |-> r.other]]
         /\ engineTrees' = FreeTree(engineTrees, trees[dst].impl)
  /\ crashed' \in DoubleFree(engineTrees, trees[dst].impl)
  /\ UNCHANGED <<parsers, handles, lastParse>> /\ LifeFrame

\* ~Tree().
DestroyTree(slot) ==
  /\ ~crashed /\ trees[slot].live
  /\ engineTrees' = FreeTree(engineTrees, trees[slot].impl)
  /\ trees' = [trees EXCEPT ![slot] = NoTree]
  /\ crashed' \in DoubleFree(engineTrees, trees[slot].impl)
  /\ UNCHANGED <<parsers, handles, lastParse>> /\ LifeFrame

\* Tree t{raw}: the public constructor, on the raw pointer of an engine
\* tree the caller got hold of (Node::impl.tree of a Node h).  The new Tree
\* owns the engine tree beside the Tree objects that own it already.
AdoptTree(slot, h) ==
  /\ ~crashed /\ ~trees[slot].live /\ handles[h].kind = "node"
  /\ trees' = [trees EXCEPT ![slot] = [live |-> TRUE, impl |-> handles[h].tree]]
  /\ engineTrees' = [engineTrees EXCEPT ![handles[h].tree].adopted = @ + 1]
  /\ UNCHANGED <<parsers, handles, lastParse, crashed>> /\ LifeFrame

\* Default values of the variables a specification does not use.
LifeIdle ==
  /\ parsers = [p \in ParserSlots |-> NoParser]
  /\ trees = [i \in 1 .. MaxTrees |-> NoTree]
  /\ engineTrees = <<>>
  /\ handles = [i \in 1 .. MaxHandles |-> NoHandle]
  /\ lastParse = NotParsed

CursorIdle ==
  /\ curTree = <<>>
  /\ cursors = [s \in Slots |-> NoCursor]
  /\ heap = {}
  /\ doubleFree = FALSE
  /\ last = Op("none")
  /\ ops = 0

IterIdle ==
  /\ iters = [i \in 1 .. MaxIters |-> NoIter]
  /\ iterMem = [p \in 1 .. MaxIters |-> <<>>]
  /\ lastIt = NotBegin

RangeIdle ==
  /\ srcBuffer = <<>> /\ srcExtent = [start |-> 0, end |-> 0] /\ srcResult = NoSlice

LangIdle ==
  /\ langCount = 1 /\ symArg = 0 /\ symResult = NoName

CursorInit ==
  /\ curTree \in Buffers
  /\ cursors = [s \in Slots |-> NoCursor]
  /\ heap = {}
  /\ doubleFree = FALSE
  /\ last = Op("none")
  /\ ops = 0
  /\ LifeIdle /\ IterIdle /\ RangeIdle /\ LangIdle
  /\ crashed = FALSE

CursorNext ==
  \/ \E s \in Slots : \E n \in NodesOf(T) : GetCursor(s, n)
  \/ \E s, d \in Slots : Copy(s, d)
  \/ \E s, d \in Slots : MoveConstruct(s, d)
  \/ \E s, d \in Slots : MoveAssignment(s, d)
  \/ \E s \in Slots : Destroy(s)
  \/ \E s \in Slots : \E n \in NodesOf(T) : ResetNode(s, n)
  \/ \E s, d \in Slots : ResetTo(d, s)
  \/ \E s \in Slots : GotoParent(s)
  \/ \E s \in Slots : GotoFirstChild(s)
  \/ \E s \in Slots : GotoLastChild(s)
  \/ \E s \in Slots : GotoNextSibling(s)
  \/ \E s \in Slots : GotoPreviousSibling(s)
  \/ \E s \in Slots : UseUnpositioned(s)

SpecCursor == CursorInit /\ [][CursorNext]_vars

IterInit ==
  /\ curTree \in IteratedBuffers
  /\ cursors = [s \in Slots |-> NoCursor]
  /\ heap = {} /\ doubleFree = FALSE /\ last = Op("none") /\ ops = 0
  /\ IterIdle /\ LifeIdle /\ RangeIdle /\ LangIdle
  /\ crashed = FALSE

IterNext ==
  \/ \E i \in Iters : \E n \in NodesOf(T) : Begin(i, n)
  \/ \E i \in Iters : Dereference(i)
  \/ \E i \in Iters : PreIncrement(i)
  \/ \E i \in Iters : PostIncrement(i)
  \/ \E i \in Iters : EndOfLoop(i)
  \/ \E i \in Iters : DereferenceMovedFrom(i)
  \/ \E src, dst \in Iters : IterMoveConstruct(src, dst)
  \/ \E src, dst \in Iters : IterMoveAssignment(src, dst)

SpecIter == IterInit /\ [][IterNext]_vars

LifeInit ==
  /\ parsers \in {[p \in ParserSlots |-> IF p = 1 THEN ParserNew(c) ELSE NoParser] :
                     c \in BOOLEAN}
  /\ trees = [i \in TreeSlots |-> NoTree]
  /\ engineTrees = <<>>
  /\ handles = [i \in Handles |-> NoHandle]
  /\ lastParse = NotParsed
  /\ CursorIdle /\ IterIdle /\ RangeIdle /\ LangIdle
  /\ crashed = FALSE

LifeNext ==
  \/ \E p \in ParserSlots : \E slot \in TreeSlots : \E buffer \in ParsedBuffers :
       ParseString(p, slot, buffer)
  \/ \E p \in ParserSlots : \E c \in BOOLEAN : NewParser(p, c)
  \/ \E p \in ParserSlots : DestroyParser(p)
  \/ \E src, dst \in ParserSlots : MoveParser(src, dst)
  \/ \E src, dst \in ParserSlots : MoveAssignParser(src, dst)
  \/ \E slot \in TreeSlots : \E h \in Handles : GetRootNode(slot, h)
  \/ \E h, h2 \in Handles : \E position \in 0 .. 2 : GetChildOf(h, h2, position)
  \/ \E h, h2 \in Handles : GetParentOf(h, h2)
  \/ \E h, h2 \in Handles : GetCursorOf(h, h2)
  \/ \E h \in Handles : UseDangling(h)
  \/ \E h \in Handles : DropHandle(h)
  \/ \E src, dst \in TreeSlots : MoveTree(src, dst)
  \/ \E src, dst \in TreeSlots : MoveAssignTree(src, dst)
  \/ \E slot \in TreeSlots : DestroyTree(slot)
  \/ \E slot \in TreeSlots : \E h \in Handles : AdoptTree(slot, h)

SpecLife == LifeInit /\ [][LifeNext]_vars

RangeInit ==
  /\ \/ /\ srcBuffer \in SeqsUpTo(MaxBufLen)
        /\ srcExtent \in ExtentsIn(srcBuffer)
     \/ /\ srcBuffer \in Buffers
        /\ srcExtent \in {getByteRange(EngineParse(srcBuffer), n) :
                             n \in NodesOf(EngineParse(srcBuffer))}
  /\ srcResult = NoSlice
  /\ CursorIdle /\ IterIdle /\ LifeIdle /\ LangIdle
  /\ crashed = FALSE

RangeNext ==
  \/ \E x \in ExtentsIn(srcBuffer) : PickNode(x)
  \/ GetSourceRange

SpecRange == RangeInit /\ [][RangeNext]_vars

LangInit ==
  /\ langCount \in 1 .. MaxSymbols
  /\ symArg \in SymbolInputs
  /\ symResult = NoName
  /\ CursorIdle /\ IterIdle /\ LifeIdle /\ RangeIdle
  /\ crashed = FALSE

LangNext ==
  \/ \E symbol \in SymbolInputs : PickSymbol(symbol)
  \/ GetSymbolName

SpecLang == LangInit /\ [][LangNext]_vars

MoveOps ==
  {"gotoParent", "gotoFirstChild", "gotoLastChild", "gotoNextSibling",
   "gotoPreviousSibling"}

Positioned(s) == cursors[s].live /\ cursors[s].impl.stack # <<>>

\* C2: a goto* call that returns false leaves the cursor it was made on at
\* the node it was at (getCurrentNode().getID() is the same before and
\* after the call); a cursor that stood on no node (its stack was empty)
\* still stands on none.
C2_FailedMoveLeavesCursorUnmoved ==
  [][(last'.op \in MoveOps /\ ~last'.ok) =>
       LET before == cursors[last'.slot].impl.stack
           after  == cursors'[last'.slot].impl.stack
       IN  /\ cursors'[last'.slot].live
           /\ \/ before = <<>> /\ after = <<>>
              \/ /\ before # <<>> /\ after # <<>>
                 /\ getCurrentNode(after) = getCurrentNode(before)]_vars

\* A gotoNextSibling has just failed on a cursor that stands on the last
\* child of a node below the cursor's origin.
C2_Witness ==
  /\ last.op = "gotoNextSibling" /\ ~last.ok
  /\ Len(cursors[last.slot].impl.stack) > 1

\* C6 as stated: getDepthFromOrigin() is the number of edges between the
\* current node and the node of the most recent construction from a Node,
\* reset(Node) or reset(Cursor&) (hence 0 right after any of them).
C6_DepthFromLastReset ==
  \A s \in Slots :
    (Positioned(s) /\ cursors[s].impl.org # 0) =>
      getDepthFromOrigin(cursors[s].impl.stack)
        = EdgesBetween(T, cursors[s].impl.org, getCurrentNode(cursors[s].impl.stack))

\* C6 amended: getDepthFromOrigin() is the number of edges between the
\* current node and the node of the most recent construction from a Node
\* or reset(Node) of this cursor or of the cursor it took its position from
\* by reset(Cursor&) or copy(); it is 0 right after the former two, the
\* other cursor's depth right after the latter two, and then +1 per
\* successful child move, -1 per successful gotoParent, unchanged by
\* sibling moves and failed moves.
C6_DepthFromStackOrigin ==
  \A s \in Slots :
    Positioned(s) =>
      /\ getDepthFromOrigin(cursors[s].impl.stack)
           = EdgesBetween(T, cursors[s].impl.base, getCurrentNode(cursors[s].impl.stack))
      /\ getDepthFromOrigin(cursors[s].impl.stack) = cursors[s].impl.bsteps

\* A cursor has been reset to another cursor that stood below its origin,
\* and has since moved to a sibling.
C6_Witness ==
  \E s \in Slots :
    /\ Positioned(s)
    /\ cursors[s].impl.org # 0 /\ cursors[s].impl.org # cursors[s].impl.base
    /\ getCurrentNode(cursors[s].impl.stack) # cursors[s].impl.org
    /\ getDepthFromOrigin(cursors[s].impl.stack) > 0
    /\ last.op = "gotoPreviousSibling" /\ last.ok /\ last.slot = s

\* C7: a cursor obtained by n.getCursor() on which gotoFirstChild() and
\* then gotoParent() were called stands on n.
C7_FirstChildThenParent ==
  \A s \in Slots :
    (Positioned(s) /\ cursors[s].impl.tr = 3) =>
      getCurrentNode(cursors[s].impl.stack) = cursors[s].impl.org

\* The two calls were made on a cursor started at a leaf that is not the
\* root: both failed.
C7_Witness ==
  \E s \in Slots :
    /\ Positioned(s) /\ cursors[s].impl.tr = 3
    /\ cursors[s].impl.org # 1
    /\ getNumChildren(T, cursors[s].impl.org) = 0
    /\ last.op = "gotoParent" /\ ~last.ok

\* getChild(0), ..., getChild(k-1) of a node, k = getNumChildren().
ChildSeq(t, n) == [j \in 1 .. getNumChildren(t, n) |-> getChild(t, n, j - 1)]

\* The position of an iterator: the stack of its cursor and atEnd.
Position(mem, it) == <<IterStack(mem, it), it.atEnd>>

\* C1 (for the iterator that carries the iteration: the one begin()
\* returned, or the one it was last moved into; not one left moved from):
\* an iteration over Children{n}, k = getNumChildren(), passes through the
\* positions 0, 1, ... by ++; at position j it is not equal to the sentinel
\* and *it is getChild(j), and it equals the sentinel exactly from position
\* k on: what it yields up to the sentinel is getChild(0), ...,
\* getChild(k-1), and nothing when k = 0.
C1_ChildrenYieldGetChildSequence ==
  \A i \in Iters :
    (iters[i].live /\ iters[i].node # 0) =>
      LET want == ChildSeq(T, iters[i].node)
      IN  IF EqualsSentinel(iters[i])
            THEN iters[i].idx = Len(want)
            ELSE /\ iters[i].idx < Len(want)
                 /\ Deref(iterMem, iters[i]) = want[iters[i].idx + 1]

\* An iteration over a node with three children has reached the sentinel
\* while another, over a node without children, is at the sentinel too.
C1_Witness ==
  \E i, j \in Iters :
    /\ iters[i].live /\ iters[i].node # 0 /\ EqualsSentinel(iters[i])
    /\ iters[i].idx = 3
    /\ iters[j].live /\ iters[j].node # 0 /\ EqualsSentinel(iters[j])
    /\ getNumChildren(T, iters[j].node) = 0

\* C9: every begin() returns an iterator on the first child of its node
\* (at the end when there is none), however far other iterators over
\* the node have advanced, and neither begin() nor reading or advancing
\* one iterator changes the position (the stack of its cursor, and atEnd)
\* of another.
C9_BeginRestartsAndIteratorsAreIndependent ==
  [][(lastIt'.op = "begin" =>
        LET it == iters'[lastIt'.slot]
        IN  IF getNumChildren(T, it.node) = 0
              THEN EqualsSentinel(it)
              ELSE ~EqualsSentinel(it)
                   /\ Deref(iterMem', it) = getChild(T, it.node, 0))
     /\ \A i \in Iters :
          (\/ \E n \in NodesOf(T) : Begin(i, n)
           \/ Dereference(i) \/ PreIncrement(i) \/ PostIncrement(i)) =>
            \A j \in Iters \ {i} :
              Position(iterMem', iters'[j]) = Position(iterMem, iters[j])]_vars

\* begin() has just been called on a node over which another live iterator
\* has already passed two children.
C9_Witness ==
  /\ lastIt.op = "begin"
  /\ \E j \in Iters :
       /\ j # lastIt.slot /\ iters[j].live
       /\ iters[j].node = iters[lastIt.slot].node
       /\ iters[j].idx >= 2
  /\ Deref(iterMem, iters[lastIt.slot]) = getChild(T, iters[lastIt.slot].node, 0)

\* C8: getSourceRange(buffer) on a node with byte range [s, e) of the
\* parsed buffer returns the e - s bytes of the buffer that start at s.
C8_SourceRangeIsBufferSlice ==
  srcResult.called =>
    /\ ~srcResult.threw
    /\ Len(srcResult.text) = srcExtent.end - srcExtent.start
    /\ \A i \in 1 .. Len(srcResult.text) :
         srcResult.text[i] = srcBuffer[srcExtent.start + i]

\* The slice of a node that starts after the first byte, is two bytes or
\* more long and ends before the end of the buffer.
C8_Witness ==
  /\ srcResult.called
  /\ srcExtent.start > 0
  /\ srcExtent.end - srcExtent.start >= 2
  /\ srcExtent.end < Len(srcBuffer)

\* C5 as stated: getSymbolName fails with an InvalidSymbol error when the
\* symbol is not below getNumSymbols(), and returns the grammar's name for
\* the symbol otherwise.
C5_InvalidSymbolWhenOutOfRange ==
  symResult.called =>
    IF symArg >= langCount
      THEN symResult.kind = "InvalidSymbol"
      ELSE symResult.kind = "name" /\ symResult.name = SymbolNames(symArg)

Held(h) == handles[h].kind # "none"

Owners(id) == {slot \in TreeSlots : trees[slot].live /\ trees[slot].impl = id}

\* C3 as stated: no Node or Cursor the caller holds points into a tree that
\* has been destroyed.
C3_NoNodeOutlivesItsTree ==
  \A h \in Handles : Held(h) => Allocated(handles[h].tree)

\* C3 amended: a Node or Cursor is valid exactly while every Tree object
\* that has come to own its engine tree is alive: each owner (the Tree
\* parseString returned, wherever it was moved to, and any Tree constructed
\* from the same raw pointer) releases the engine tree once, when it is
\* destroyed or assigned over; an engine tree with the one owner parseString
\* gave it is released at most once.  (A Node or Cursor can be kept beyond
\* that: it then points into a released tree.)
C3_ValidExactlyWhileTreeAlive ==
  /\ \A id \in 1 .. Len(engineTrees) :
       /\ Cardinality(Owners(id)) + engineTrees[id].frees
            = 1 + engineTrees[id].adopted
       /\ engineTrees[id].adopted = 0 => engineTrees[id].frees <= 1
  /\ \A h \in Handles :
       Held(h) =>
         (Allocated(handles[h].tree)
            <=> Cardinality(Owners(handles[h].tree))
                  = 1 + engineTrees[handles[h].tree].adopted)

\* The caller holds a Node and a Cursor, both into a tree whose Tree has
\* been destroyed.
C3_Witness ==
  \E h, h2 \in Handles :
    /\ handles[h].kind = "node"
    /\ ~Allocated(handles[h].tree)
    /\ handles[h2].kind = "cursor" /\ ~Allocated(handles[h2].tree)
    /\ \A slot \in TreeSlots : ~trees[slot].live

\* C4 as stated: every parseString call returns a Tree with an engine tree
\* behind it, whose root node is not null.
C4_ParseAlwaysYieldsRoot ==
  lastParse.called => (lastParse.result = "tree" /\ lastParse.root # 0)

\* C10: no engine-side cursor state is freed twice, and none is left
\* allocated once every Cursor object is destroyed.
C10_ReleasedExactlyOnce ==
  /\ ~doubleFree
  /\ (\A s \in Slots : ~cursors[s].live) => heap = {}

\* Every Cursor is destroyed; the last one destroyed was a moved-from
\* cursor (its state was empty).
C10_Witness ==
  /\ \A s \in Slots : ~cursors[s].live
  /\ last.op = "destroy" /\ ~last.ok
====
